---- MODULE Spec2Model ----
(***************************************************************************)
(* Model of src/sports_scores.py (class SportsScoreTracker).               *)
(*                                                                         *)
(* Python values are represented as follows.                               *)
(*  - None is the empty tuple <<>>, a present value v is <<v>>.            *)
(*  - A str that the code searches in (team ids, nicknames) is a tuple of  *)
(*    one-character strings, so that lower() and the "in" substring test   *)
(*    are computed; market names, only ever used as dict keys, are TLA+    *)
(*    strings.                                                             *)
(*  - A dict is a function on its keys; the two literal dicts, whose      *)
(*    iteration order the code depends on, are tuples of key/value        *)
(*    records in source order.                                             *)
(*  - Scores and averages are integers; the float expression              *)
(*    ((x - e) / e) * 100 is kept as an exact fraction.                    *)
(***************************************************************************)
EXTENDS Integers, Sequences, FiniteSets, TLC

VARIABLES
  pc,                        \* position of the main program
  now,                       \* datetime.now(), in seconds since start
  cycles,                    \* completed iterations of the while loop
  interrupted,               \* a KeyboardInterrupt was delivered
  cycle_log,                 \* what the current / last poll cycle printed
  nba_halftime_averages,     \* self.nba_halftime_averages
  nba_second_half_averages,  \* self.nba_second_half_averages
  last_averages_update,      \* self.last_averages_update
  update_run,                \* record of the executions of the refresh
  lookup,                    \* the last get_team_stats call and its result
  current_score,             \* analyze_performance: argument
  avg_score_per_game,        \* analyze_performance: argument
  rating,                    \* analyze_performance: result
  competitor,                \* get_halftime_score: argument
  halftime,                  \* get_halftime_score: result
  data,                      \* monitor_scores: the scoreboard of the cycle
  halftimes,             \* monitor_scores: get_halftime_score per event
  live_games,                \* monitor_scores: live_games
  completed_games,           \* monitor_scores: completed_games
  output                     \* monitor_scores: the game lines printed

loopVars == <<pc, now, cycles, interrupted, cycle_log>>
cacheVars == <<nba_halftime_averages, nba_second_half_averages,
               last_averages_update, update_run>>
classifyVars == <<current_score, avg_score_per_game, rating>>
halftimeVars == <<competitor, halftime>>
renderVars == <<data, halftimes, live_games, completed_games, output>>
vars == <<loopVars, cacheVars, lookup, classifyVars, halftimeVars, renderVars>>

None == <<>>
Some(v) == <<v>>

-----------------------------------------------------------------------------
(* Bounds of the model *)

\* poll cycles a run may complete
MaxCycles == 2
\* the clock stops advancing past this many seconds
MaxTime == 3700

\* analyze_performance is applied to scores in -MaxScore..MaxScore
MaxScore == 25
\* and to averages in -MaxAvg..MaxAvg
MaxAvg == 20
\* scoring periods of a competitor
MaxPeriods == 3

\* events on the scoreboard of a cycle
MaxEvents == 2

(* Constants of the program *)

\* get_team_stats: the cache is stale after this many seconds
STALE_SECONDS == 3600
\* monitor_scores: time.sleep between two cycles
POLL_INTERVAL == 30

-----------------------------------------------------------------------------
(* The two literal tables *)

nba_team_mappings ==
  << [key |-> <<"H", "a", "w", "k", "s">>, value |-> "Atlanta"],
     [key |-> <<"C", "e", "l", "t", "i", "c", "s">>, value |-> "Boston"],
     [key |-> <<"N", "e", "t", "s">>, value |-> "Brooklyn"],
     [key |-> <<"H", "o", "r", "n", "e", "t", "s">>, value |-> "Charlotte"],
     [key |-> <<"B", "u", "l", "l", "s">>, value |-> "Chicago"],
     [key |-> <<"C", "a", "v", "a", "l", "i", "e", "r", "s">>, value |-> "Cleveland"],
     [key |-> <<"M", "a", "v", "e", "r", "i", "c", "k", "s">>, value |-> "Dallas"],
     [key |-> <<"N", "u", "g", "g", "e", "t", "s">>, value |-> "Denver"],
     [key |-> <<"P", "i", "s", "t", "o", "n", "s">>, value |-> "Detroit"],
     [key |-> <<"W", "a", "r", "r", "i", "o", "r", "s">>, value |-> "Golden State"],
     [key |-> <<"R", "o", "c", "k", "e", "t", "s">>, value |-> "Houston"],
     [key |-> <<"P", "a", "c", "e", "r", "s">>, value |-> "Indiana"],
     [key |-> <<"C", "l", "i", "p", "p", "e", "r", "s">>, value |-> "LA Clippers"],
     [key |-> <<"L", "a", "k", "e", "r", "s">>, value |-> "LA Lakers"],
     [key |-> <<"G", "r", "i", "z", "z", "l", "i", "e", "s">>, value |-> "Memphis"],
     [key |-> <<"H", "e", "a", "t">>, value |-> "Miami"],
     [key |-> <<"B", "u", "c", "k", "s">>, value |-> "Milwaukee"],
     [key |-> <<"T", "i", "m", "b", "e", "r", "w", "o", "l", "v", "e", "s">>, value |-> "Minnesota"],
     [key |-> <<"P", "e", "l", "i", "c", "a", "n", "s">>, value |-> "New Orleans"],
     [key |-> <<"K", "n", "i", "c", "k", "s">>, value |-> "New York"],
     [key |-> <<"T", "h", "u", "n", "d", "e", "r">>, value |-> "Okla City"],
     [key |-> <<"M", "a", "g", "i", "c">>, value |-> "Orlando"],
     [key |-> <<"7", "6", "e", "r", "s">>, value |-> "Philadelphia"],
     [key |-> <<"S", "u", "n", "s">>, value |-> "Phoenix"],
     [key |-> <<"T", "r", "a", "i", "l", " ", "B", "l", "a", "z", "e", "r", "s">>, value |-> "Portland"],
     [key |-> <<"K", "i", "n", "g", "s">>, value |-> "Sacramento"],
     [key |-> <<"S", "p", "u", "r", "s">>, value |-> "San Antonio"],
     [key |-> <<"R", "a", "p", "t", "o", "r", "s">>, value |-> "Toronto"],
     [key |-> <<"J", "a", "z", "z">>, value |-> "Utah"],
     [key |-> <<"W", "i", "z", "a", "r", "d", "s">>, value |-> "Washington"] >>

team_id_mappings ==
  << [key |-> <<"1">>, value |-> <<"H", "a", "w", "k", "s">>],
     [key |-> <<"2">>, value |-> <<"C", "e", "l", "t", "i", "c", "s">>],
     [key |-> <<"3">>, value |-> <<"N", "e", "t", "s">>],
     [key |-> <<"4">>, value |-> <<"H", "o", "r", "n", "e", "t", "s">>],
     [key |-> <<"5">>, value |-> <<"B", "u", "l", "l", "s">>],
     [key |-> <<"6">>, value |-> <<"C", "a", "v", "a", "l", "i", "e", "r", "s">>],
     [key |-> <<"7">>, value |-> <<"M", "a", "v", "e", "r", "i", "c", "k", "s">>],
     [key |-> <<"8">>, value |-> <<"N", "u", "g", "g", "e", "t", "s">>],
     [key |-> <<"9">>, value |-> <<"P", "i", "s", "t", "o", "n", "s">>],
     [key |-> <<"1", "0">>, value |-> <<"W", "a", "r", "r", "i", "o", "r", "s">>],
     [key |-> <<"1", "1">>, value |-> <<"R", "o", "c", "k", "e", "t", "s">>],
     [key |-> <<"1", "2">>, value |-> <<"P", "a", "c", "e", "r", "s">>],
     [key |-> <<"1", "3">>, value |-> <<"C", "l", "i", "p", "p", "e", "r", "s">>],
     [key |-> <<"1", "4">>, value |-> <<"L", "a", "k", "e", "r", "s">>],
     [key |-> <<"1", "5">>, value |-> <<"G", "r", "i", "z", "z", "l", "i", "e", "s">>],
     [key |-> <<"1", "6">>, value |-> <<"H", "e", "a", "t">>],
     [key |-> <<"1", "7">>, value |-> <<"B", "u", "c", "k", "s">>],
     [key |-> <<"1", "8">>, value |-> <<"T", "i", "m", "b", "e", "r", "w", "o", "l", "v", "e", "s">>],
     [key |-> <<"1", "9">>, value |-> <<"P", "e", "l", "i", "c", "a", "n", "s">>],
     [key |-> <<"2", "0">>, value |-> <<"K", "n", "i", "c", "k", "s">>],
     [key |-> <<"2", "1">>, value |-> <<"T", "h", "u", "n", "d", "e", "r">>],
     [key |-> <<"2", "2">>, value |-> <<"M", "a", "g", "i", "c">>],
     [key |-> <<"2", "3">>, value |-> <<"7", "6", "e", "r", "s">>],
     [key |-> <<"2", "4">>, value |-> <<"S", "u", "n", "s">>],
     [key |-> <<"2", "5">>, value |-> <<"T", "r", "a", "i", "l", " ", "B", "l", "a", "z", "e", "r", "s">>],
     [key |-> <<"2", "6">>, value |-> <<"K", "i", "n", "g", "s">>],
     [key |-> <<"2", "7">>, value |-> <<"S", "p", "u", "r", "s">>],
     [key |-> <<"2", "8">>, value |-> <<"R", "a", "p", "t", "o", "r", "s">>],
     [key |-> <<"2", "9">>, value |-> <<"J", "a", "z", "z">>],
     [key |-> <<"3", "0">>, value |-> <<"W", "i", "z", "a", "r", "d", "s">>] >>

-----------------------------------------------------------------------------
(* str.lower() and the substring test "a in b" *)

UpperCase == <<"A", "B", "C", "D", "E", "F", "G", "H", "I", "J", "K", "L", "M",
               "N", "O", "P", "Q", "R", "S", "T", "U", "V", "W", "X", "Y", "Z">>
LowerCase == <<"a", "b", "c", "d", "e", "f", "g", "h", "i", "j", "k", "l", "m",
               "n", "o", "p", "q", "r", "s", "t", "u", "v", "w", "x", "y", "z">>

\* the lower-case letter of every upper-case letter
CaseMap ==
  [c \in {UpperCase[i] : i \in 1..Len(UpperCase)} |->
     LowerCase[CHOOSE i \in 1..Len(UpperCase) : UpperCase[i] = c]]

LowerChar(c) == IF c \in DOMAIN CaseMap THEN CaseMap[c] ELSE c

Lower(s) == [i \in 1..Len(s) |-> LowerChar(s[i])]

\* needle in hay, for two str
Contains(needle, hay) ==
  \E i \in 1..(Len(hay) - Len(needle) + 1) :
    SubSeq(hay, i, i + Len(needle) - 1) = needle

\* a str argument, and an argument that is not a str (a JSON number)
Str(s) == [type |-> "str", text |-> s]
NotStr == [type |-> "int", text |-> <<>>]

-----------------------------------------------------------------------------
(* get_team_stats, lines 146-209: resolution of the identifier and the read *)

\* team_id in team_id_mappings: the index of the code, 0 when it is no key
CodeIndex(team_id) ==
  IF team_id.type = "str" /\ \E i \in 1..Len(team_id_mappings) :
                                 team_id_mappings[i].key = team_id.text
    THEN CHOOSE i \in 1..Len(team_id_mappings) :
           team_id_mappings[i].key = team_id.text
    ELSE 0

\* self.nba_team_mappings[nickname]
MarketOf(nickname) ==
  nba_team_mappings[CHOOSE i \in 1..Len(nba_team_mappings) :
                      nba_team_mappings[i].key = nickname].value

\* key.lower() for every key of nba_team_mappings, in iteration order
LowerKeys ==
  [i \in 1..Len(nba_team_mappings) |-> Lower(nba_team_mappings[i].key)]

\* the keys of nba_team_mappings that occur in team_id, line 189
NicknameMatches(team_id) ==
  LET id_lower == Lower(team_id.text)
  IN  {i \in 1..Len(nba_team_mappings) : Contains(LowerKeys[i], id_lower)}

FirstMatch_CaseSensitive(team_id) ==
  LET m == {i \in 1..Len(nba_team_mappings) :
              Contains(nba_team_mappings[i].key, team_id.text)}
  IN  IF m = {} THEN None
      ELSE Some(nba_team_mappings[CHOOSE i \in m : \A j \in m : i <= j].value)

\* the for loop of lines 188-191: the first key that matches wins
FirstMatch(team_id) ==
  LET m == NicknameMatches(team_id)
  IN  IF m = {} THEN None
      ELSE Some(nba_team_mappings[CHOOSE i \in m : \A j \in m : i <= j].value)

\* lines 147-191: team_name, or the exception the search raises
ResolveTeamName(team_id) ==
  IF CodeIndex(team_id) # 0
    THEN [raised |-> FALSE,
          name |-> Some(MarketOf(team_id_mappings[CodeIndex(team_id)].value))]
    ELSE IF team_id.type # "str"
      THEN [raised |-> TRUE, name |-> None]    \* team_id.lower(): AttributeError
      ELSE [raised |-> FALSE, name |-> FirstMatch(team_id)]

\* lines 193-209: the value returned, given the two maps as they are read
ReadAverage(team_id, second_half, first_avgs, second_avgs) ==
  LET r == ResolveTeamName(team_id)
      avgs == IF second_half THEN second_avgs ELSE first_avgs
  IN  IF r.raised THEN [value |-> None, raised |-> FALSE]   \* except Exception
      ELSE IF r.name = None THEN [value |-> None, raised |-> FALSE]
      ELSE IF r.name[1] \in DOMAIN avgs
        THEN [value |-> Some(avgs[r.name[1]]), raised |-> FALSE]
        ELSE [value |-> None, raised |-> FALSE]

-----------------------------------------------------------------------------
(* update_nba_halftime_averages, lines 63-136 *)

\* the team names of the rows of the statistics tables
TeamNames == {"LA Lakers"}
\* the averages the tables may show
Averages == {50, 60}
\* column 2 of a row: a number, or text float() rejects
Cells == {None} \cup {Some(v) : v \in Averages}
Tables == [TeamNames -> Cells]
NoRows == [n \in TeamNames |-> None]

\* what one GET of a statistics page yields
FetchResults ==
  {[kind |-> k, table |-> NoRows] : k \in {"raise", "no_table"}}
    \cup {[kind |-> "table", table |-> t] : t \in Tables}

\* the for loop over the rows: a row whose cell parses overwrites the entry
ParseRows(avgs, table) ==
  LET parsed == {n \in DOMAIN table : table[n] # None}
  IN  [n \in (DOMAIN avgs) \cup parsed |->
         IF n \in parsed THEN table[n][1] ELSE avgs[n]]

\* lines 65-100, the map
HalftimeAfterFetch(avgs, r) ==
  IF r.kind = "table" THEN ParseRows(avgs, r.table) ELSE avgs

TimestampAfterFetch_Always(ts, r, t) == Some(t)

\* lines 65-100, the timestamp (line 86)
TimestampAfterFetch(ts, r, t) ==
  IF r.kind = "table" THEN Some(t) ELSE ts

\* lines 102-136
SecondHalfAfterFetch(avgs, r) ==
  IF r.kind = "table" THEN ParseRows(avgs, r.table) ELSE avgs

update_nba_halftime_averages(r1, r2) ==
  /\ nba_halftime_averages' = HalftimeAfterFetch(nba_halftime_averages, r1)
  /\ last_averages_update' = TimestampAfterFetch(last_averages_update, r1, now)
  /\ nba_second_half_averages' =
       SecondHalfAfterFetch(nba_second_half_averages, r2)
  /\ update_run' = [n |-> 1 - update_run.n,
                    at |-> Some(now),
                    gap |-> IF update_run.at = None THEN None
                            ELSE Some(now - update_run.at[1]),
                    first |-> r1.kind,
                    second |-> r2.kind]

NeedsRefresh_AtLeast(ts, t) == ts = None \/ t - ts[1] >= STALE_SECONDS

\* lines 142-143
NeedsRefresh(ts, t) == ts = None \/ t - ts[1] > STALE_SECONDS

-----------------------------------------------------------------------------
(* The program: __init__, then monitor_scores *)

EmptyDict == [n \in {} |-> 0]

NoLookup == [n |-> 0, team_id |-> Str(<<>>), second_half |-> FALSE,
             value |-> None, raised |-> FALSE]

IdleClassify ==
  /\ current_score = 0
  /\ avg_score_per_game = None
  /\ rating = "idle"

IdleHalftime ==
  /\ competitor = [id |-> Str(<<>>), has_linescores |-> FALSE,
                   linescores |-> <<>>,
                   score |-> [kind |-> "missing", value |-> 0]]
  /\ halftime = [called |-> FALSE, value |-> None]

IdleRender ==
  /\ data = <<>>
  /\ halftimes = <<>>
  /\ live_games = <<>>
  /\ completed_games = <<>>
  /\ output = <<>>

\* lines 13-60: the object before the initial fetch of line 61
Init ==
  /\ pc = "init"
  /\ now = 0
  /\ cycles = 0
  /\ interrupted = FALSE
  /\ cycle_log = "none"
  /\ nba_halftime_averages = EmptyDict
  /\ nba_second_half_averages = EmptyDict
  /\ last_averages_update = None
  /\ update_run = [n |-> 0, at |-> None, gap |-> None,
                   first |-> "none", second |-> "none"]
  /\ lookup = NoLookup
  /\ IdleClassify
  /\ IdleHalftime
  /\ IdleRender

\* line 61, then line 388 enters the loop
Startup ==
  /\ pc = "init"
  /\ \E r1, r2 \in FetchResults : update_nba_halftime_averages(r1, r2)
  /\ pc' = "poll"
  /\ UNCHANGED <<now, cycles, interrupted, cycle_log, lookup,
                 classifyVars, halftimeVars, renderVars>>

\* the team id of a game on the scoreboard
PolledTeamIds == {Str(<<"1", "4">>)}

\* get_team_stats, lines 138-209, as called while the games are rendered
GetTeamStats(team_id, second_half) ==
  /\ pc = "render"
  /\ IF NeedsRefresh(last_averages_update, now)
       THEN \E r1, r2 \in FetchResults : update_nba_halftime_averages(r1, r2)
       ELSE UNCHANGED cacheVars
  /\ lookup' = [n |-> 1 - lookup.n,
                team_id |-> team_id,
                second_half |-> second_half] @@
               ReadAverage(team_id, second_half,
                           nba_halftime_averages', nba_second_half_averages')
  /\ UNCHANGED <<loopVars, classifyVars, halftimeVars, renderVars>>

\* where the loop goes when a cycle raises: lines 365-370
OnCycleException_Escapes == "stopped"

OnCycleException == "sleep"

\* lines 243-246: the GET of the scoreboard and response.json()
PollFetch ==
  /\ pc = "poll"
  /\ \/ /\ cycle_log' = "error"            \* requests.get or .json() raises
        /\ pc' = OnCycleException
     \/ /\ cycle_log' = "ok"               \* no 'events' in data
        /\ pc' = "sleep"
     \/ /\ cycle_log' = "none"             \* the games are rendered
        /\ pc' = "render"
  /\ UNCHANGED <<now, cycles, interrupted, cacheVars, lookup,
                 classifyVars, halftimeVars, renderVars>>

\* lines 362-370: the games are printed, the cycle ends
RenderDone ==
  /\ pc = "render"
  /\ cycle_log' = "ok"
  /\ pc' = "sleep"
  /\ UNCHANGED <<now, cycles, interrupted, cacheVars, lookup,
                 classifyVars, halftimeVars, renderVars>>

\* a KeyError or ValueError while the games are filtered or rendered
RenderFail ==
  /\ pc = "render"
  /\ cycle_log' = "error"
  /\ pc' = OnCycleException
  /\ UNCHANGED <<now, cycles, interrupted, cacheVars, lookup,
                 classifyVars, halftimeVars, renderVars>>

\* line 370: time.sleep(30), then the next iteration
Sleep ==
  /\ pc = "sleep"
  /\ cycles < MaxCycles
  /\ now' = now + POLL_INTERVAL
  /\ cycles' = cycles + 1
  /\ cycle_log' = "none"
  /\ pc' = "poll"
  /\ UNCHANGED <<interrupted, cacheVars, lookup,
                 classifyVars, halftimeVars, renderVars>>

\* lines 373-375: KeyboardInterrupt anywhere in the loop
Interrupt ==
  /\ pc \in {"poll", "render", "sleep"}
  /\ interrupted' = TRUE
  /\ pc' = "stopped"
  /\ UNCHANGED <<now, cycles, cycle_log, cacheVars, lookup,
                 classifyVars, halftimeVars, renderVars>>

\* the time the blocking requests of a cycle take
Delays == {STALE_SECONDS - POLL_INTERVAL, STALE_SECONDS - POLL_INTERVAL + 1}

Tick(d) ==
  /\ pc \in {"poll", "render"}
  /\ now + d <= MaxTime
  /\ now' = now + d
  /\ UNCHANGED <<pc, cycles, interrupted, cycle_log, cacheVars, lookup,
                 classifyVars, halftimeVars, renderVars>>

Next ==
  \/ Startup
  \/ \E team_id \in PolledTeamIds, second_half \in BOOLEAN :
       GetTeamStats(team_id, second_half)
  \/ PollFetch
  \/ RenderDone
  \/ RenderFail
  \/ Sleep
  \/ Interrupt
  \/ \E d \in Delays : Tick(d)

Spec == Init /\ [][Next]_vars

-----------------------------------------------------------------------------
(* The refresh of the averages and the poll loop, under Spec *)

\* C2: a get_team_stats call runs update_nba_halftime_averages exactly when
\* the timestamp is unset or more than 3600 seconds old, and the value it
\* returns is read from the maps as the refresh left them.
C2_RefreshBeforeRead ==
  [][lookup'.n # lookup.n =>
       /\ (update_run'.n # update_run.n) <=>
            (\/ last_averages_update = None
             \/ now - last_averages_update[1] > 3600)
       /\ LET m == IF lookup'.second_half THEN nba_second_half_averages'
                   ELSE nba_halftime_averages'
          IN  lookup'.value = IF "LA Lakers" \in DOMAIN m
                                THEN Some(m["LA Lakers"]) ELSE None]_vars

\* C2, witness: a lookup found a timestamp more than an hour old and refreshed
C2_Witness ==
  /\ lookup.n = 1
  /\ update_run.gap # None
  /\ update_run.gap[1] > STALE_SECONDS
  /\ last_averages_update = update_run.at
  /\ lookup.value # None

\* C3: any two executions of update_nba_halftime_averages are more than 3600
\* seconds apart, whatever the fetches returned.
C3_AtMostOncePerHour ==
  update_run.gap # None => update_run.gap[1] > 3600

\* C4: a fetch that fails leaves its map untouched, and the timestamp is set
\* by a refresh exactly when its first-half fetch found the table, whatever
\* the second-half fetch did.
C4_FailedFetchKeepsCache ==
  [][update_run'.n # update_run.n =>
       /\ update_run'.first \in {"raise", "no_table"} =>
            /\ nba_halftime_averages' = nba_halftime_averages
            /\ last_averages_update' = last_averages_update
       /\ update_run'.second \in {"raise", "no_table"} =>
            nba_second_half_averages' = nba_second_half_averages
       /\ update_run'.first = "table" => last_averages_update' = Some(now)]_vars

\* C4, witness: a populated cache went through a refresh whose first-half
\* fetch failed and whose second-half fetch succeeded
C4_Witness ==
  /\ update_run.gap # None
  /\ update_run.first \in {"raise", "no_table"}
  /\ update_run.second = "table"
  /\ nba_halftime_averages # EmptyDict
  /\ last_averages_update # None
  /\ last_averages_update # update_run.at

\* C5: a cycle that raises is logged and the loop goes on to its sleep; the
\* sleep lasts 30 seconds and leads to the next cycle; the loop stops only
\* on a KeyboardInterrupt.
C5_LoopSurvivesCycleFailure ==
  [][/\ (cycle_log' = "error" /\ cycle_log # "error") => pc' = "sleep"
     /\ (pc' = "stopped" /\ pc # "stopped") => (interrupted' /\ ~interrupted)
     /\ (pc = "sleep" /\ pc' \notin {"sleep", "stopped"}) =>
          (pc' = "poll" /\ now' = now + 30)]_vars

\* C5, witness: a cycle after the first failed and the loop is in its sleep
C5_Witness ==
  /\ cycles >= 1
  /\ cycle_log = "error"
  /\ pc = "sleep"
  /\ ~interrupted

-----------------------------------------------------------------------------
(* analyze_performance, lines 211-224 *)

\* line 218 as the exact fraction num / den, den > 0
diff_percentage(current, expected) ==
  IF expected > 0
    THEN [num |-> (current - expected) * 100, den |-> expected]
    ELSE [num |-> (expected - current) * 100, den |-> -expected]

IsHot_Strict(d) == d.num > 5 * d.den

\* line 220: diff_percentage >= 5
IsHot(d) == d.num >= 5 * d.den

\* line 222: diff_percentage <= -5
IsCold(d) == d.num <= (-5) * d.den

analyze_performance(current, avg) ==
  IF avg = None \/ avg[1] = 0
    THEN "no-data"
    ELSE LET d == diff_percentage(current, avg[1])
         IN  IF IsHot(d) THEN "hot"
             ELSE IF IsCold(d) THEN "cold"
             ELSE "neutral"

\* the program at rest, for the specifications of single functions
AtRest ==
  /\ pc = "call"
  /\ now = 0
  /\ cycles = 0
  /\ interrupted = FALSE
  /\ cycle_log = "none"
  /\ nba_halftime_averages = EmptyDict
  /\ nba_second_half_averages = EmptyDict
  /\ last_averages_update = None
  /\ update_run = [n |-> 0, at |-> None, gap |-> None,
                   first |-> "none", second |-> "none"]
  /\ lookup = NoLookup

InitClassify ==
  /\ AtRest
  /\ current_score \in (-MaxScore)..MaxScore
  /\ avg_score_per_game \in {None} \cup {Some(e) : e \in (-MaxAvg)..MaxAvg}
  /\ rating = "idle"
  /\ IdleHalftime
  /\ IdleRender

AnalyzePerformance ==
  /\ rating = "idle"
  /\ rating' = analyze_performance(current_score, avg_score_per_game)
  /\ UNCHANGED <<loopVars, cacheVars, lookup, current_score,
                 avg_score_per_game, halftimeVars, renderVars>>

SpecClassify == InitClassify /\ [][AnalyzePerformance]_vars

\* C1: no-data when the average is absent or zero; otherwise hot when
\* (x - e) / e * 100 >= 5, cold when it is <= -5, neutral in between, both
\* thresholds inclusive, and a score equal to a positive average is neutral.
C1_Classification ==
  rating # "idle" =>
    LET x == current_score
        a == avg_score_per_game
    IN  /\ (a = None \/ a = Some(0)) <=> rating = "no-data"
        /\ (a # None /\ a # Some(0)) =>
             LET e == a[1]
                 hot == IF e > 0 THEN 20 * x >= 21 * e ELSE 20 * x <= 21 * e
                 cold == IF e > 0 THEN 20 * x <= 19 * e ELSE 20 * x >= 19 * e
             IN  /\ hot <=> rating = "hot"
                 /\ cold <=> rating = "cold"
                 /\ (~hot /\ ~cold) <=> rating = "neutral"
                 /\ (e > 0 /\ x = e) => rating = "neutral"

\* C1, witness: a score exactly 5 percent above its average is rated hot
C1_Witness ==
  /\ current_score = 21
  /\ avg_score_per_game = Some(20)
  /\ rating = "hot"

-----------------------------------------------------------------------------
(* get_halftime_score, lines 226-233 *)

\* an entry of 'linescores': 'value' is a number, is absent, or is something
\* float() rejects
Num(v) == [kind |-> "num", value |-> v]
Missing == [kind |-> "missing", value |-> 0]
Malformed == [kind |-> "malformed", value |-> 0]

\* a competitor of an event: team id, 'linescores' (if the key is there) and
\* 'score'
Competitor(id, has, ls, score) ==
  [id |-> id, has_linescores |-> has, linescores |-> ls, score |-> score]

\* score.get('value', 0)
ValueOrDefault(entry) == IF entry.kind = "missing" THEN 0 ELSE entry.value

get_halftime_score_MalformedAsZero(c) ==
  IF c.has_linescores /\ Len(c.linescores) >= 2
    THEN Some(ValueOrDefault(c.linescores[1]) + ValueOrDefault(c.linescores[2]))
    ELSE None

get_halftime_score_Partial(c) ==
  IF c.has_linescores /\ Len(c.linescores) >= 1
    THEN IF Len(c.linescores) = 1
           THEN Some(ValueOrDefault(c.linescores[1]))
           ELSE Some(ValueOrDefault(c.linescores[1])
                       + ValueOrDefault(c.linescores[2]))
    ELSE None

\* float() of a malformed value raises inside the try: None is returned
get_halftime_score(c) ==
  IF c.has_linescores /\ Len(c.linescores) >= 2
    THEN IF \E i \in 1..2 : c.linescores[i].kind = "malformed"
           THEN None
           ELSE Some(ValueOrDefault(c.linescores[1])
                       + ValueOrDefault(c.linescores[2]))
    ELSE None

PeriodPoints == {0, 25, 30}
PeriodEntries == {Missing, Malformed} \cup {Num(v) : v \in PeriodPoints}
Linescores == UNION {[1..n -> PeriodEntries] : n \in 0..MaxPeriods}
NoScore == [kind |-> "missing", value |-> 0]

IdleCompetitor == Competitor(Str(<<>>), FALSE, <<>>, NoScore)

InitHalftime ==
  /\ AtRest
  /\ IdleClassify
  /\ competitor \in
       {IdleCompetitor} \cup
       {Competitor(Str(<<"1", "4">>), TRUE, ls, NoScore) : ls \in Linescores}
  /\ halftime = [called |-> FALSE, value |-> None]
  /\ IdleRender

GetHalftimeScore ==
  /\ ~halftime.called
  /\ halftime' = [called |-> TRUE, value |-> get_halftime_score(competitor)]
  /\ UNCHANGED <<loopVars, cacheVars, lookup, classifyVars, competitor,
                 renderVars>>

SpecHalftime == InitHalftime /\ [][GetHalftimeScore]_vars

\* the sum of the first two entries with every entry that is not a number
\* counted as 0
SumWithZeros(ls) ==
  (IF ls[1].kind = "num" THEN ls[1].value ELSE 0)
    + (IF ls[2].kind = "num" THEN ls[2].value ELSE 0)

\* C9, as claimed: with two periods or more the result is a number, the sum
\* of the first two entries where a missing or malformed value counts as 0.
C9_MalformedCountsAsZero ==
  (halftime.called /\ competitor.has_linescores
     /\ Len(competitor.linescores) >= 2) =>
    halftime.value = Some(SumWithZeros(competitor.linescores))

\* C9, amended: with two periods or more, the result is that sum when neither
\* of the first two values is malformed (a missing value counting as 0), and
\* it is None when one of them is malformed.
C9_MalformedGivesNone ==
  (halftime.called /\ competitor.has_linescores
     /\ Len(competitor.linescores) >= 2) =>
    IF competitor.linescores[1].kind = "malformed"
         \/ competitor.linescores[2].kind = "malformed"
      THEN halftime.value = None
      ELSE halftime.value = Some(SumWithZeros(competitor.linescores))

\* C9, witness: a missing second value counted as 0 in a sum that is a number
C9_Witness ==
  /\ halftime.called
  /\ competitor.has_linescores
  /\ competitor.linescores = <<Num(30), Missing, Num(25)>>
  /\ halftime.value = Some(30)

-----------------------------------------------------------------------------
(* One cycle of monitor_scores, lines 243-366, on a scoreboard that was     *)
(* fetched and parsed, with a cache that needs no refresh                   *)

\* lines 260-261, for every event
HalftimesOf(events) ==
  [i \in 1..Len(events) |->
     [home |-> get_halftime_score(events[i].home),
      away |-> get_halftime_score(events[i].away)]]

\* lines 264-270; idx is the position of the event on the scoreboard
GameInfo(events, i) ==
  [idx |-> i,
   event |-> events[i],
   home_halftime |-> get_halftime_score(events[i].home)[1],
   away_halftime |-> get_halftime_score(events[i].away)[1]]

\* lines 251-275: the events from position i on that have both halftime
\* scores and go to completed_games (post) or to live_games (not post)
RECURSIVE GamesFrom(_, _, _)
GamesFrom(events, i, post) ==
  IF i > Len(events) THEN <<>>
  ELSE LET keep == /\ get_halftime_score(events[i].home) # None
                   /\ get_halftime_score(events[i].away) # None
                   /\ (events[i].state = "post") = post
       IN  (IF keep THEN <<GameInfo(events, i)>> ELSE <<>>)
             \o GamesFrom(events, i + 1, post)

\* line 300
LiveEmphasis(home_perf, away_perf) ==
  \/ home_perf = "hot" /\ away_perf = "hot"
  \/ home_perf = "cold" /\ away_perf = "cold"

CompletedEmphasis_AnyHalf(home_first, away_first, home_second, away_second) ==
  \/ "hot" \in {home_first, home_second} /\ "hot" \in {away_first, away_second}
  \/ "cold" \in {home_first, home_second}
       /\ "cold" \in {away_first, away_second}

\* lines 354-357
CompletedEmphasis(home_first, away_first, home_second, away_second) ==
  \/ home_first = "hot" /\ away_first = "hot"
  \/ home_first = "cold" /\ away_first = "cold"
  \/ home_second = "hot" /\ away_second = "hot"
  \/ home_second = "cold" /\ away_second = "cold"

\* lines 291-303: the line of a live game
LiveLine(game, first_avgs, second_avgs) ==
  LET home_stats ==
        ReadAverage(game.event.home.id, FALSE, first_avgs, second_avgs).value
      away_stats ==
        ReadAverage(game.event.away.id, FALSE, first_avgs, second_avgs).value
      home_perf == analyze_performance(game.home_halftime, home_stats)
      away_perf == analyze_performance(game.away_halftime, away_stats)
  IN  [idx |-> game.idx,
       section |-> "live",
       home_first |-> home_perf,
       away_first |-> away_perf,
       home_second |-> "-",
       away_second |-> "-",
       bold |-> LiveEmphasis(home_perf, away_perf)]

\* float(team.get('score', 0)), lines 319-320
FinalScore(c) == IF c.score.kind = "missing" THEN 0 ELSE c.score.value
FinalScoreRaises(c) == c.score.kind = "malformed"

\* lines 319-360: the line of a completed game
CompletedLine(game, first_avgs, second_avgs) ==
  LET home == game.event.home
      away == game.event.away
      home_second_half == FinalScore(home) - game.home_halftime
      away_second_half == FinalScore(away) - game.away_halftime
      home_first_perf ==
        analyze_performance(game.home_halftime,
          ReadAverage(home.id, FALSE, first_avgs, second_avgs).value)
      away_first_perf ==
        analyze_performance(game.away_halftime,
          ReadAverage(away.id, FALSE, first_avgs, second_avgs).value)
      home_second_perf ==
        analyze_performance(home_second_half,
          ReadAverage(home.id, TRUE, first_avgs, second_avgs).value)
      away_second_perf ==
        analyze_performance(away_second_half,
          ReadAverage(away.id, TRUE, first_avgs, second_avgs).value)
  IN  [idx |-> game.idx,
       section |-> "completed",
       home_first |-> home_first_perf,
       away_first |-> away_first_perf,
       home_second |-> home_second_perf,
       away_second |-> away_second_perf,
       bold |-> CompletedEmphasis(home_first_perf, away_first_perf,
                                  home_second_perf, away_second_perf)]

\* lines 285-303
RenderLive(games, first_avgs, second_avgs) ==
  [k \in 1..Len(games) |-> LiveLine(games[k], first_avgs, second_avgs)]

\* lines 313-360: the lines printed from game k on, and whether float()
\* raised, which ends the loop
RECURSIVE RenderCompleted(_, _, _, _)
RenderCompleted(games, k, first_avgs, second_avgs) ==
  IF k > Len(games) THEN [lines |-> <<>>, raised |-> FALSE]
  ELSE IF FinalScoreRaises(games[k].event.home)
            \/ FinalScoreRaises(games[k].event.away)
    THEN [lines |-> <<>>, raised |-> TRUE]
    ELSE LET rest == RenderCompleted(games, k + 1, first_avgs, second_avgs)
         IN  [lines |-> <<CompletedLine(games[k], first_avgs, second_avgs)>>
                          \o rest.lines,
              raised |-> rest.raised]

\* the two teams of the scoreboards of the model
HomeId == Str(<<"1", "4">>)
AwayId == Str(<<"2">>)
Quarters == <<Num(25), Num(25), Num(25)>>
Final == [kind |-> "num", value |-> 100]
Good(id) == Competitor(id, TRUE, Quarters, Final)
NoLinescores(id) == Competitor(id, FALSE, <<>>, Final)
OnePeriod(id) == Competitor(id, TRUE, <<Num(25)>>, Final)
MalformedPeriod(id) == Competitor(id, TRUE, <<Num(25), Malformed>>, Final)
MalformedFinal(id) ==
  Competitor(id, TRUE, Quarters, [kind |-> "malformed", value |-> 0])

Event(state, home, away) == [state |-> state, home |-> home, away |-> away]

Events ==
  {Event("in", Good(HomeId), Good(AwayId)),
   Event("post", Good(HomeId), Good(AwayId)),
   Event("in", NoLinescores(HomeId), Good(AwayId)),
   Event("post", Good(HomeId), OnePeriod(AwayId)),
   Event("post", Good(HomeId), MalformedPeriod(AwayId)),
   Event("in", MalformedFinal(HomeId), Good(AwayId)),
   Event("post", MalformedFinal(HomeId), Good(AwayId))}

Scoreboards == UNION {[1..n -> Events] : n \in 0..MaxEvents}

\* the averages of the two teams in a populated cache
CycleNames == {"LA Lakers", "Boston"}
CycleAverages == {40, 50, 60}
CycleDicts == UNION {[S -> CycleAverages] : S \in SUBSET CycleNames}

InitCycle ==
  /\ pc = "poll"
  /\ now = 0
  /\ cycles = 0
  /\ interrupted = FALSE
  /\ cycle_log = "none"
  /\ nba_halftime_averages \in CycleDicts
  /\ nba_second_half_averages \in CycleDicts
  /\ last_averages_update = Some(0)
  /\ update_run = [n |-> 1, at |-> Some(0), gap |-> None,
                   first |-> "table", second |-> "table"]
  /\ lookup = NoLookup
  /\ IdleClassify
  /\ IdleHalftime
  /\ IdleRender

RenderCycle(events) ==
  /\ pc = "poll"
  /\ ~NeedsRefresh(last_averages_update, now)
  /\ data' = events
  /\ halftimes' = HalftimesOf(events)
  /\ live_games' = GamesFrom(events, 1, FALSE)
  /\ completed_games' = GamesFrom(events, 1, TRUE)
  /\ LET completed == RenderCompleted(completed_games', 1,
                        nba_halftime_averages, nba_second_half_averages)
     IN  /\ output' = RenderLive(live_games', nba_halftime_averages,
                                 nba_second_half_averages)
                        \o completed.lines
         /\ cycle_log' = IF completed.raised THEN "error" ELSE "ok"
         /\ pc' = IF completed.raised THEN OnCycleException ELSE "sleep"
  /\ UNCHANGED <<now, cycles, interrupted, cacheVars, lookup,
                 classifyVars, halftimeVars>>

SpecCycle ==
  InitCycle /\ [][\E events \in Scoreboards : RenderCycle(events)]_vars

Rendered(i) == \E k \in 1..Len(output) : output[k].idx = i

Listed(i) ==
  \/ \E k \in 1..Len(live_games) : live_games[k].idx = i
  \/ \E k \in 1..Len(completed_games) : completed_games[k].idx = i

FewerThanTwoPeriods(c) == ~c.has_linescores \/ Len(c.linescores) < 2

\* an event with missing linescores or a value that is not a number
MalformedEvent(e) ==
  \E c \in {e.home, e.away} :
    \/ ~c.has_linescores
    \/ c.score.kind = "malformed"
    \/ \E j \in 1..Len(c.linescores) : c.linescores[j].kind = "malformed"

\* C6: in a cycle whose scoreboard was fetched, every event that is not
\* itself malformed and has both halftime scores is rendered, wherever the
\* malformed events stand and whether they are live or completed.
C6_OnlyMalformedGameSkipped ==
  pc = "sleep" =>
    \A i \in 1..Len(data) :
      (/\ ~MalformedEvent(data[i])
       /\ halftimes[i].home # None
       /\ halftimes[i].away # None) => Rendered(i)

\* C8: get_halftime_score is None for a competitor without linescores or
\* with fewer than two periods, and an event with such a competitor is in
\* neither live_games nor completed_games, nor printed.
C8_FewerThanTwoPeriodsIsAbsent ==
  pc = "sleep" =>
    \A i \in 1..Len(data) :
      /\ FewerThanTwoPeriods(data[i].home) => halftimes[i].home = None
      /\ FewerThanTwoPeriods(data[i].away) => halftimes[i].away = None
      /\ (FewerThanTwoPeriods(data[i].home)
            \/ FewerThanTwoPeriods(data[i].away))
           => (~Listed(i) /\ ~Rendered(i))

\* C8, witness: a game with a one-period team was left out of a cycle that
\* rendered another game
C8_Witness ==
  /\ pc = "sleep"
  /\ Len(data) = 2
  /\ Len(data[1].away.linescores) = 1
  /\ halftimes[1].away = None
  /\ halftimes[1].home = Some(50)
  /\ ~Listed(1)
  /\ Rendered(2)

SameRating(a, b, ratings) == a = b /\ a \in ratings

\* C10, as claimed: a line is emphasised exactly when the two teams have the
\* same rating other than neutral in the same half.
C10_EmphasisOnSharedNonNeutral ==
  \A k \in 1..Len(output) :
    LET l == output[k]
        other == {"hot", "cold", "no-data"}
    IN  l.bold <=>
          IF l.section = "live"
            THEN SameRating(l.home_first, l.away_first, other)
            ELSE \/ SameRating(l.home_first, l.away_first, other)
                 \/ SameRating(l.home_second, l.away_second, other)

\* C10, amended: a line is emphasised exactly when the two teams are both
\* hot or both cold in the same half; two no-data ratings, like two neutral
\* ones, give no emphasis, and neither does a rating shared across halves.
C10_EmphasisOnSharedHotOrCold ==
  \A k \in 1..Len(output) :
    LET l == output[k]
        marked == {"hot", "cold"}
    IN  l.bold <=>
          IF l.section = "live"
            THEN SameRating(l.home_first, l.away_first, marked)
            ELSE \/ SameRating(l.home_first, l.away_first, marked)
                 \/ SameRating(l.home_second, l.away_second, marked)

\* C10, witness: home hot in the first half only, away hot in the second
\* half only, and the line of the completed game is not emphasised
C10_Witness ==
  \E k \in 1..Len(output) :
    /\ output[k].section = "completed"
    /\ output[k].home_first = "hot"
    /\ output[k].away_first = "neutral"
    /\ output[k].home_second = "cold"
    /\ output[k].away_second = "hot"
    /\ ~output[k].bold

-----------------------------------------------------------------------------
(* get_team_stats on the identifiers a scoreboard may carry *)

TeamIds ==
  {Str(<<"1", "4">>),
   Str(<<"3">>),
   Str(<<"L", "a", "k", "e", "r", "s", " ", "T", "e", "a", "m">>),
   Str(<<"L", "A", "K", "E", "R", "S">>),
   Str(<<"H", "o", "r", "n", "e", "t", "s">>),
   Str(<<"9", "9">>),
   Str(<<>>),
   NotStr}

LookupNames == {"LA Lakers", "Brooklyn"}
LookupDicts == UNION {[S -> Averages] : S \in SUBSET LookupNames}

\* a cache refreshed at 0, whatever its rows were; the lookups of a stale
\* cache are those of Spec
InitLookup ==
  /\ pc = "render"
  /\ now = 0
  /\ cycles = 0
  /\ interrupted = FALSE
  /\ cycle_log = "none"
  /\ nba_halftime_averages \in LookupDicts
  /\ nba_second_half_averages \in LookupDicts
  /\ last_averages_update = Some(0)
  /\ update_run = [n |-> 1, at |-> Some(0), gap |-> None,
                   first |-> "table", second |-> "table"]
  /\ lookup = NoLookup
  /\ IdleClassify
  /\ IdleHalftime
  /\ IdleRender

SpecLookup ==
  InitLookup
    /\ [][\E team_id \in TeamIds, second_half \in BOOLEAN :
            GetTeamStats(team_id, second_half)]_vars

\* the average of a market name in the map of the half that was asked for
RecordedAverage(name) ==
  LET avgs == IF lookup.second_half THEN nba_second_half_averages
              ELSE nba_halftime_averages
  IN  IF name \in DOMAIN avgs THEN Some(avgs[name]) ELSE None

\* C7: a known code resolves through the code table; any other identifier
\* resolves to a nickname it contains, case ignored; the value returned is
\* the average of the resolved market name in the requested half; None is
\* returned, and nothing is raised, when no team is resolved or no average
\* is recorded. "14" and "Lakers Team" both resolve to LA Lakers.
C7_ResolutionAndAbsence ==
  LET id == lookup.team_id
      codes == {i \in 1..Len(team_id_mappings) :
                  id.type = "str" /\ team_id_mappings[i].key = id.text}
      id_lower == Lower(id.text)
      nicks == {i \in 1..Len(nba_team_mappings) :
                  Contains(Lower(nba_team_mappings[i].key), id_lower)}
  IN  /\ ~lookup.raised
      /\ codes # {} =>
           \A i \in codes :
             \E j \in 1..Len(nba_team_mappings) :
               /\ nba_team_mappings[j].key = team_id_mappings[i].value
               /\ lookup.value = RecordedAverage(nba_team_mappings[j].value)
      /\ (codes = {} /\ id.type = "str" /\ nicks # {}) =>
           \E j \in nicks :
             lookup.value = RecordedAverage(nba_team_mappings[j].value)
      /\ (codes = {} /\ (id.type # "str" \/ nicks = {})) => lookup.value = None
      /\ id = Str(<<"1", "4">>) => lookup.value = RecordedAverage("LA Lakers")
      /\ id = Str(<<"L", "a", "k", "e", "r", "s", " ", "T", "e", "a", "m">>) =>
           lookup.value = RecordedAverage("LA Lakers")
      /\ id = Str(<<"L", "A", "K", "E", "R", "S">>) =>
           lookup.value = RecordedAverage("LA Lakers")

\* C7, witness: "Lakers Team" returned the second-half average of LA Lakers
C7_Witness ==
  /\ lookup.team_id =
       Str(<<"L", "a", "k", "e", "r", "s", " ", "T", "e", "a", "m">>)
  /\ lookup.second_half
  /\ lookup.value = Some(60)
  /\ "LA Lakers" \in DOMAIN nba_second_half_averages
  /\ "LA Lakers" \notin DOMAIN nba_halftime_averages

-----------------------------------------------------------------------------
(* get_team_stats on the nicknames themselves: the fallback of lines 188-191 *)

\* every key of nba_team_mappings, passed as the identifier
NicknameIds ==
  {Str(nba_team_mappings[i].key) : i \in 1..Len(nba_team_mappings)}

\* the market names of a nickname that contains another one, and of that one
NicknameNames == {"Charlotte", "Brooklyn"}
NicknameDicts == UNION {[S -> Averages] : S \in SUBSET NicknameNames}

\* a cache refreshed at 0, whatever its rows were
InitNicknames ==
  /\ pc = "render"
  /\ now = 0
  /\ cycles = 0
  /\ interrupted = FALSE
  /\ cycle_log = "none"
  /\ nba_halftime_averages \in NicknameDicts
  /\ nba_second_half_averages \in {EmptyDict}
  /\ last_averages_update = Some(0)
  /\ update_run = [n |-> 1, at |-> Some(0), gap |-> None,
                   first |-> "table", second |-> "table"]
  /\ lookup = NoLookup
  /\ IdleClassify
  /\ IdleHalftime
  /\ IdleRender

SpecNicknames ==
  InitNicknames
    /\ [][\E team_id \in NicknameIds, second_half \in BOOLEAN :
            GetTeamStats(team_id, second_half)]_vars

\* C11: every nickname of nba_team_mappings, passed as the identifier,
\* resolves to its own market name: the value returned is the average
\* recorded for that market name, whatever the order of the table and
\* whether or not another nickname is a substring of it.
C11_NicknameResolvesToOwnMarket ==
  \A i \in 1..Len(nba_team_mappings) :
    lookup.team_id = Str(nba_team_mappings[i].key) =>
      lookup.value = RecordedAverage(nba_team_mappings[i].value)

====
